---- MODULE Spec2Model ----
(***************************************************************************)
(* Option pricing: the Cox-Ross-Rubinstein lattice (binomial_option.py),   *)
(* the Monte Carlo pricer with textual payoffs (monte_carlo_option.py) and *)
(* the /price form handler (web_option_server.py).                         *)
(*                                                                         *)
(* Numbers.  A Python float is modelled as a fraction [n, d]:              *)
(*   d > 0          the finite value n/d, in lowest terms;                 *)
(*   d = 0, n = 1   +inf;   d = 0, n = -1   -inf;   d = 0, n = 0   nan.    *)
(* A finite result whose magnitude exceeds FloatMax becomes +-inf, as an   *)
(* IEEE-754 product or sum does past the largest double; inf and nan then  *)
(* propagate by the IEEE rules (0 * inf = nan, inf - inf = nan, every      *)
(* comparison with nan is false).  Rounding and underflow are not          *)
(* modelled: below FloatMax the arithmetic is exact.                       *)
(*                                                                         *)
(* math.exp is modelled with base 2 on integer arguments (Exp(x) = 2^x);   *)
(* math.sqrt is exact on perfect squares.  The parameter grids below are   *)
(* chosen so that every argument the code passes to them is of that form.  *)
(***************************************************************************)
EXTENDS Integers, Sequences, FiniteSets, TLC

\* The largest finite magnitude of the float model (stands for DBL_MAX).
FloatMax == 64

\* Python's None, for the variables that hold a string.
None == "None"

\* No float: an unbound local, or None where a float may stand.
Unset == [n |-> 0, d |-> -1]

(***************************** float arithmetic ****************************)

Abs(i) == IF i < 0 THEN -i ELSE i

Sign(i) == IF i < 0 THEN -1 ELSE IF i > 0 THEN 1 ELSE 0

RECURSIVE GCD(_, _)
GCD(a, b) == IF b = 0 THEN a ELSE GCD(b, a % b)

NaN == [n |-> 0, d |-> 0]

Inf(s) == [n |-> s, d |-> 0]

IsNaN(a) == a.d = 0 /\ a.n = 0

IsInf(a) == a.d = 0 /\ a.n # 0

IsFinite(a) == a.d > 0

\* |n| / d > FloatMax, for d > 0.
PastMax(n, d) ==
    LET q == Abs(n) \div d IN q > FloatMax \/ (q = FloatMax /\ Abs(n) % d # 0)

\* n/d with d > 0, reduced; past FloatMax it is an infinity.
Norm(n, d) ==
    IF PastMax(n, d) THEN Inf(Sign(n))
    ELSE LET g == GCD(Abs(n), d) IN [n |-> n \div g, d |-> d \div g]

F(i) == Norm(i, 1)

Zero == [n |-> 0, d |-> 1]

One == [n |-> 1, d |-> 1]

FNeg(a) == [n |-> -a.n, d |-> a.d]

FAdd(a, b) ==
    IF IsNaN(a) \/ IsNaN(b) THEN NaN
    ELSE IF IsInf(a) /\ IsInf(b) THEN (IF a.n = b.n THEN a ELSE NaN)
    ELSE IF IsInf(a) THEN a
    ELSE IF IsInf(b) THEN b
    ELSE Norm(a.n * b.d + b.n * a.d, a.d * b.d)

FSub(a, b) == FAdd(a, FNeg(b))

FMul(a, b) ==
    IF IsNaN(a) \/ IsNaN(b) THEN NaN
    ELSE IF IsInf(a) \/ IsInf(b)
         THEN (IF a.n = 0 \/ b.n = 0 THEN NaN ELSE Inf(Sign(a.n) * Sign(b.n)))
    ELSE Norm(a.n * b.n, a.d * b.d)

\* a / b for b # 0 (Python raises ZeroDivisionError on b = 0 before dividing).
FDiv(a, b) ==
    IF IsNaN(a) \/ IsNaN(b) THEN NaN
    ELSE IF IsInf(a) /\ IsInf(b) THEN NaN
    ELSE IF IsInf(a) THEN Inf(Sign(a.n) * Sign(b.n))
    ELSE IF IsInf(b) THEN Zero
    ELSE Norm(a.n * b.d * Sign(b.n), a.d * Abs(b.n))

FLt(a, b) ==
    IF IsNaN(a) \/ IsNaN(b) THEN FALSE
    ELSE IF IsInf(a) THEN a.n < 0 /\ b # a
    ELSE IF IsInf(b) THEN b.n > 0
    ELSE a.n * b.d < b.n * a.d

FLe(a, b) ==
    IF IsNaN(a) \/ IsNaN(b) THEN FALSE
    ELSE a = b \/ FLt(a, b)

\* Python's max(a, b) and min(a, b): the first argument unless the second
\* beats it (so a nan first argument is returned as is).
PyMax(a, b) == IF FLt(a, b) THEN b ELSE a

PyMin(a, b) == IF FLt(b, a) THEN b ELSE a

FAbs(a) == [n |-> Abs(a.n), d |-> a.d]

RECURSIVE IntPow(_, _)
IntPow(b, k) == IF k = 0 THEN 1 ELSE b * IntPow(b, k - 1)

\* a ** k for a finite float a and an int k >= 0, exactly.
RECURSIVE PowExact(_, _)
PowExact(a, k) ==
    IF k = 0 THEN [n |-> 1, d |-> 1]
    ELSE LET r == PowExact(a, k - 1) IN [n |-> r.n * a.n, d |-> r.d * a.d]

\* float.__pow__ raises OverflowError where the result leaves the range.
PowOverflows(a, k) == LET r == PowExact(a, k) IN PastMax(r.n, r.d)

FPow(a, k) == LET r == PowExact(a, k) IN Norm(r.n, r.d)

IsInteger(a) == a.d = 1

\* math.exp(x): raises OverflowError where the result leaves the range.
ExpOverflows(x) == x.n > 0 /\ IntPow(2, x.n) > FloatMax

Exp(x) == IF x.n >= 0 THEN Norm(IntPow(2, x.n), 1) ELSE Norm(1, IntPow(2, -x.n))

\* math.sqrt(x) on the perfect squares of the grid.
Roots == {Norm(i, j) : i \in 0..2, j \in 1..2}

HasSqrt(x) == \E r \in Roots : FMul(r, r) = x

Sqrt(x) == CHOOSE r \in Roots : FMul(r, r) = x


(******************************* parameter grids ***************************)

\* Bounds of the model.
MaxSteps == 2
MaxPaths == 2
MaxStrike == 2
MaxVol == 2
MaxRate == 2

VARIABLES
    \* binomial_option.py
    option,     \* the OptionSpec instance the caller holds, or NoOption
    lastCtor,   \* the arguments of the latest OptionSpec(...) call, or NoOption
    specErr,    \* the error that call raised, or None
    attrErr,    \* the error the latest attribute assignment raised, or None
    bpc,        \* where price_option is: idle, terminal, induct, returned, raised
    bargs,      \* its arguments [spot, rate, volatility, steps]
    blocal,     \* its locals [dt, u, d, disc, p] once computed
    prices,     \* its list prices
    payoffs,    \* its list payoffs
    step,       \* its backward-induction loop variable
    bresult,    \* the value it returned, or Unset
    berror      \* the error it raised, or None

binVars ==
    <<option, lastCtor, specErr, attrErr, bpc, bargs, blocal, prices, payoffs,
      step, bresult, berror>>

VARIABLES
    rng,    \* the shared generator
    fn,     \* per thread: the payoff function the caller holds, or NoFn
    pc,     \* per thread: idle, loop, inner, returned, raised, rendered, crashed
    args,   \* per thread: the arguments of monte_carlo_price
    loc,    \* per thread: its locals
    out,    \* per thread: [result, exc, msg], what the call returned or raised
    gh,     \* per thread, history: [zs, evals, used, cached], the variates the
            \* call drew, its payoff calls, what the payoff evaluations used,
            \* and whether the generator held a cached variate at the call
    page    \* per thread: [error, result] as handed to the template

mcVars == <<rng, fn, pc, args, loc, out, gh, page>>

vars == <<binVars, mcVars>>

(************************ binomial_option.OptionSpec ***********************)

Kinds == {"call", "put", "straddle"}
Strikes == {F(i) : i \in -1..MaxStrike}
Maturities == {F(i) : i \in -1..(2 * MaxSteps)}

NoOption == [kind |-> None, strike |-> Unset, maturity |-> Unset]

KindMsg == "kind must be either 'call' or 'put'"
StrikeMsg == "strike must be positive"
MaturityMsg == "maturity must be positive"

\* A faulty __post_init__ that does not check strike.
PostInitNoStrikeCheck(kind, strike, maturity) ==
    IF kind \notin {"call", "put"} THEN KindMsg
    ELSE IF FLe(maturity, Zero) THEN MaturityMsg
    ELSE None

\* OptionSpec.__post_init__: the error raised for the fields, or None.
PostInit(kind, strike, maturity) ==
    IF kind \notin {"call", "put"} THEN KindMsg
    ELSE IF FLe(strike, Zero) THEN StrikeMsg
    ELSE IF FLe(maturity, Zero) THEN MaturityMsg
    ELSE None

\* @dataclass(frozen=True): __setattr__ raises FrozenInstanceError.
Frozen == TRUE

\* OptionSpec(kind, strike, maturity): the generated __init__ sets the fields
\* and runs __post_init__; when that raises the caller never gets the object.
Construct(kind, strike, maturity) ==
    /\ bpc = "idle"
    /\ lastCtor' = [kind |-> kind, strike |-> strike, maturity |-> maturity]
    /\ specErr' = PostInit(kind, strike, maturity)
    /\ option' = IF specErr' = None
                 THEN [kind |-> kind, strike |-> strike, maturity |-> maturity]
                 ELSE NoOption
    /\ attrErr' = None
    /\ UNCHANGED <<bpc, bargs, blocal, prices, payoffs, step, bresult, berror>>
    /\ UNCHANGED mcVars

\* option.<field> = value on a constructed instance.
SetAttr(field, value) ==
    /\ bpc = "idle"
    /\ option # NoOption
    /\ IF Frozen
       THEN /\ attrErr' = "FrozenInstanceError"
            /\ option' = option
       ELSE /\ attrErr' = None
            /\ option' = [option EXCEPT ![field] = value]
    /\ UNCHANGED <<lastCtor, specErr, bpc, bargs, blocal, prices, payoffs, step,
                   bresult, berror>>
    /\ UNCHANGED mcVars

(************************ binomial_option.price_option *********************)

SpotMsg == "spot must be positive"
VolMsg == "volatility must be positive"
StepsMsg == "steps must be a positive integer"
ProbMsg == "Computed risk-neutral probability is invalid; check parameters"

NoLocal == [dt |-> Unset, u |-> Unset, d |-> Unset, disc |-> Unset, p |-> Unset]

NoArgs == [spot |-> Unset, rate |-> Unset, volatility |-> Unset, steps |-> 0]

\* The grid point is one the model's exp and sqrt are exact on.
OnGrid(maturity, rate, volatility, steps) ==
    LET dt == FDiv(maturity, F(steps)) IN
    /\ HasSqrt(dt)
    /\ IsInteger(FMul(volatility, Sqrt(dt)))
    /\ IsInteger(FMul(rate, dt))

\* Lines 61-66: the input checks, in their order.
CheckInputs(spot, volatility, steps) ==
    IF FLe(spot, Zero) THEN SpotMsg
    ELSE IF FLe(volatility, Zero) THEN VolMsg
    ELSE IF steps <= 0 THEN StepsMsg
    ELSE None

\* A faulty probability check that tests the upper end only.
BadProbabilityUpperOnly(p) == ~ FLe(p, One)

\* Line 74: not (0 <= p <= 1).
BadProbability(p) == ~ (FLe(Zero, p) /\ FLe(p, One))

\* Lines 61-75: [err, loc] where err is the error raised (or None) and loc the
\* locals computed by then.
EnterPriceOption(opt, spot, rate, volatility, steps) ==
    LET chk == CheckInputs(spot, volatility, steps) IN
    IF chk # None THEN [err |-> chk, loc |-> NoLocal]
    ELSE
    LET dt == FDiv(opt.maturity, F(steps))
        ux == FMul(volatility, Sqrt(dt))
        rx == FMul(rate, dt)
    IN
    IF ExpOverflows(ux) \/ ExpOverflows(FNeg(rx)) \/ ExpOverflows(rx)
    THEN [err |-> "OverflowError", loc |-> [NoLocal EXCEPT !.dt = dt]]
    ELSE
    LET u == Exp(ux)
        d == FDiv(One, u)
        disc == Exp(FNeg(rx))
    IN
    IF FSub(u, d) = Zero
    THEN [err |-> "ZeroDivisionError",
          loc |-> [dt |-> dt, u |-> u, d |-> d, disc |-> disc, p |-> Unset]]
    ELSE
    LET p == FDiv(FSub(Exp(rx), d), FSub(u, d))
    IN [err |-> IF BadProbability(p) THEN ProbMsg ELSE None,
        loc |-> [dt |-> dt, u |-> u, d |-> d, disc |-> disc, p |-> p]]

PriceOptionEnter(spot, rate, volatility, steps) ==
    /\ bpc = "idle"
    /\ option # NoOption
    /\ CheckInputs(spot, volatility, steps) = None
          => OnGrid(option.maturity, rate, volatility, steps)
    /\ LET r == EnterPriceOption(option, spot, rate, volatility, steps) IN
       /\ bargs' = [spot |-> spot, rate |-> rate, volatility |-> volatility,
                    steps |-> steps]
       /\ blocal' = r.loc
       /\ berror' = r.err
       /\ bpc' = IF r.err = None THEN "terminal" ELSE "raised"
    /\ bresult' = Unset
    /\ prices' = <<>>
    /\ payoffs' = <<>>
    /\ step' = -1
    /\ UNCHANGED <<option, lastCtor, specErr, attrErr>>
    /\ UNCHANGED mcVars

\* Line 78: spot * (u ** j) * (d ** (steps - j)), j counted from 0.
TerminalPrice(j) ==
    FMul(FMul(bargs.spot, FPow(blocal.u, j)), FPow(blocal.d, bargs.steps - j))

\* Lines 79-82.
TerminalPayoff(price) ==
    IF option.kind = "call" THEN PyMax(FSub(price, option.strike), Zero)
    ELSE PyMax(FSub(option.strike, price), Zero)

\* Lines 77-82.
BuildTerminal ==
    /\ bpc = "terminal"
    /\ IF \E j \in 0..bargs.steps :
             PowOverflows(blocal.u, j) \/ PowOverflows(blocal.d, bargs.steps - j)
       THEN /\ bpc' = "raised"
            /\ berror' = "OverflowError"
            /\ UNCHANGED <<prices, payoffs, step>>
       ELSE /\ prices' = [k \in 1..(bargs.steps + 1) |-> TerminalPrice(k - 1)]
            /\ payoffs' = [k \in 1..(bargs.steps + 1) |-> TerminalPayoff(prices'[k])]
            /\ step' = bargs.steps - 1
            /\ bpc' = "induct"
            /\ berror' = berror
    /\ UNCHANGED <<option, lastCtor, specErr, attrErr, bargs, blocal, bresult>>
    /\ UNCHANGED mcVars

\* Line 87: disc * (p * payoffs[j + 1] + (1 - p) * payoffs[j]), j from 1 here.
NodeValue(j) ==
    FMul(blocal.disc,
         FAdd(FMul(blocal.p, payoffs[j + 1]),
              FMul(FSub(One, blocal.p), payoffs[j])))

\* Lines 85-88: one pass of the loop body.
InductStep ==
    /\ bpc = "induct"
    /\ step >= 0
    /\ payoffs' = [j \in 1..(step + 1) |-> NodeValue(j)]
    /\ step' = step - 1
    /\ UNCHANGED <<option, lastCtor, specErr, attrErr, bpc, bargs, blocal, prices,
                   bresult, berror>>
    /\ UNCHANGED mcVars

\* Line 90.
Return ==
    /\ bpc = "induct"
    /\ step < 0
    /\ bresult' = payoffs[1]
    /\ bpc' = "returned"
    /\ UNCHANGED <<option, lastCtor, specErr, attrErr, bargs, blocal, prices,
                   payoffs, step, berror>>
    /\ UNCHANGED mcVars

\* The caller takes the result or the error; the call's frame is gone.
Leave ==
    /\ bpc \in {"returned", "raised"}
    /\ bpc' = "idle"
    /\ bargs' = NoArgs
    /\ blocal' = NoLocal
    /\ prices' = <<>>
    /\ payoffs' = <<>>
    /\ step' = -1
    /\ bresult' = Unset
    /\ berror' = None
    /\ UNCHANGED <<option, lastCtor, specErr, attrErr>>
    /\ UNCHANGED mcVars

BinInit ==
    /\ option = NoOption
    /\ lastCtor = NoOption
    /\ specErr = None
    /\ attrErr = None
    /\ bpc = "idle"
    /\ bargs = NoArgs
    /\ blocal = NoLocal
    /\ prices = <<>>
    /\ payoffs = <<>>
    /\ step = -1
    /\ bresult = Unset
    /\ berror = None

BinSpots == {F(0), F(1), F(3), F(FloatMax)}
BinRates == {F(i) : i \in -MaxRate..MaxRate}
BinVols == {F(i) : i \in -1..MaxVol}
BinSteps == -1..MaxSteps

BinNext ==
    \/ \E k \in Kinds, s \in Strikes, m \in Maturities : Construct(k, s, m)
    \/ \E v \in Strikes : SetAttr("strike", v)
    \/ \E sp \in BinSpots, r \in BinRates, v \in BinVols, n \in BinSteps :
          PriceOptionEnter(sp, r, v, n)
    \/ BuildTerminal
    \/ InductStep
    \/ Return
    \/ Leave


(************** monte_carlo_option.parse_payoff_expression *****************)
(* A payoff expression is given by its syntax tree, as Python's compile()  *)
(* builds it.  A node is [t, id, n, a]: its type, its name (identifier,    *)
(* operator or attribute), its number and its children.  The trees below   *)
(* also hold inputs compile() rejects in "eval" mode: statements and text  *)
(* that does not parse.                                                    *)

Node(t, id, n, a) == [t |-> t, id |-> id, n |-> n, a |-> a]

Num(i) == Node("Num", "", F(i), <<>>)
Name(id) == Node("Name", id, Unset, <<>>)
EmptyTuple == Node("Tuple", "", Unset, <<>>)
\* (x for x in ())
EmptyGenerator == Node("GeneratorExp", "", Unset, <<>>)
BinOp(l, op, r) == Node("BinOp", op, Unset, <<l, r>>)
BoolOp(l, op, r) == Node("BoolOp", op, Unset, <<l, r>>)
Call(f, actuals) == Node("Call", "", Unset, <<f>> \o actuals)
Attribute(v, attr) == Node("Attribute", attr, Unset, <<v>>)
Subscript(v, i) == Node("Subscript", "", Unset, <<v, i>>)
\* (target := v)
NamedExpr(target, v) == Node("NamedExpr", target, Unset, <<v>>)
\* target = v, a statement
Assign(target, v) == Node("Assign", target, Unset, <<v>>)
\* import name, a statement
Import(name) == Node("Import", name, Unset, <<>>)
\* text the parser stops in, such as "max(S"
Unparsable == Node("ParseError", "", Unset, <<>>)

ExpressionNodes ==
    {"Num", "Name", "Tuple", "GeneratorExp", "BinOp", "BoolOp", "Call",
     "Attribute", "Subscript", "NamedExpr"}

\* Line 36, compile(expression, "<payoff>", "eval"): a code object for one
\* expression, SyntaxError for anything else.  Names are not looked at.
RECURSIVE IsExpression(_)
IsExpression(e) ==
    /\ e.t \in ExpressionNodes
    /\ \A k \in DOMAIN e.a : IsExpression(e.a[k])

(* Values of the evaluation: [t, x, s, xs], the value's type, its number,  *)
(* its name and its items.                                                 *)

Value(t, x, s, xs) == [t |-> t, x |-> x, s |-> s, xs |-> xs]

VNum(x) == Value("float", x, "", <<>>)
VList(xs) == Value("list", Unset, "", xs)
VTuple(xs) == Value("tuple", Unset, "", xs)
VBuiltin(name) == Value("builtin_function_or_method", Unset, name, <<>>)
VModule(name) == Value("module", Unset, name, <<>>)
VClass(name) == Value("type", Unset, name, <<>>)
VInstance(cls) == Value(cls, Unset, "", <<>>)
VGenerator == Value("generator", Unset, "", <<>>)

\* Exceptions that derive from Exception; BaseException itself (like
\* SystemExit and KeyboardInterrupt) does not.
IsException(exc) == exc # "BaseException"

Val(v, st) == [k |-> "val", v |-> v, exc |-> None, st |-> st]
Raise(exc, st) == [k |-> "raise", v |-> VNum(Unset), exc |-> exc, st |-> st]

Truthy(v) ==
    IF v.t = "float" THEN v.x # Zero
    ELSE IF v.t \in {"list", "tuple"} THEN v.xs # <<>>
    ELSE TRUE

\* object.__subclasses__(), cut down to two of its entries.
ObjectSubclasses == <<VClass("type"), VClass("BaseException")>>

\* getattr(v, a), for the attributes the expressions below use.
GetAttr(v, attr, st) ==
    IF attr = "__class__" THEN Val(VClass(v.t), st)
    ELSE IF v.t = "module" /\ v.s = "math" /\ attr \in {"exp", "sqrt"}
         THEN Val(VBuiltin("math." \o attr), st)
    ELSE IF v.t = "type" /\ attr = "__base__" /\ v.s # "object"
         THEN Val(VClass("object"), st)
    ELSE IF v.t = "type" /\ v.s = "object" /\ attr = "__subclasses__"
         THEN Val(VBuiltin("object.__subclasses__"), st)
    ELSE IF v.t = "generator" /\ attr = "throw"
         THEN Val(VBuiltin("generator.throw"), st)
    ELSE Raise("AttributeError", st)

\* v[i] for a list or tuple v and an integer i, negative i from the end.
GetItem(v, i, st) ==
    IF v.t \notin {"list", "tuple"} \/ i.t # "float" \/ ~ IsInteger(i.x)
    THEN Raise("TypeError", st)
    ELSE LET k == IF i.x.n < 0 THEN Len(v.xs) + i.x.n + 1 ELSE i.x.n + 1 IN
         IF k \in 1..Len(v.xs) THEN Val(v.xs[k], st) ELSE Raise("IndexError", st)

AllFloats(vs) == \A k \in DOMAIN vs : vs[k].t = "float"

RECURSIVE FoldMax(_, _), FoldMin(_, _)
FoldMax(vs, k) ==
    IF k = Len(vs) THEN vs[k].x ELSE LET m == FoldMax(vs, k + 1) IN
    \* max keeps the earliest item no later item beats
    IF FLt(vs[k].x, m) THEN m ELSE vs[k].x
FoldMin(vs, k) ==
    IF k = Len(vs) THEN vs[k].x ELSE LET m == FoldMin(vs, k + 1) IN
    IF FLt(m, vs[k].x) THEN m ELSE vs[k].x

\* f(*vs)
Apply(f, vs, st) ==
    IF f.t = "builtin_function_or_method" /\ f.s \in {"max", "min"}
    THEN LET items == IF Len(vs) = 1 /\ vs[1].t \in {"list", "tuple"}
                      THEN vs[1].xs ELSE vs
         IN IF Len(vs) = 0 \/ (Len(vs) = 1 /\ vs[1].t \notin {"list", "tuple"})
               \/ ~ AllFloats(items)
            THEN Raise("TypeError", st)
            ELSE IF items = <<>> THEN Raise("ValueError", st)
            ELSE Val(VNum(IF f.s = "max" THEN FoldMax(items, 1)
                          ELSE FoldMin(items, 1)), st)
    ELSE IF f.t = "builtin_function_or_method" /\ f.s = "abs"
    THEN IF Len(vs) = 1 /\ vs[1].t = "float"
         THEN Val(VNum(FAbs(vs[1].x)), st) ELSE Raise("TypeError", st)
    ELSE IF f.t = "builtin_function_or_method" /\ f.s = "math.exp"
    THEN IF Len(vs) # 1 \/ vs[1].t # "float" THEN Raise("TypeError", st)
         ELSE IF ExpOverflows(vs[1].x) THEN Raise("OverflowError", st)
         ELSE Val(VNum(Exp(vs[1].x)), st)
    ELSE IF f.t = "builtin_function_or_method" /\ f.s = "math.sqrt"
    THEN IF Len(vs) # 1 \/ vs[1].t # "float" THEN Raise("TypeError", st)
         ELSE IF FLt(vs[1].x, Zero) THEN Raise("ValueError", st)
         ELSE Val(VNum(Sqrt(vs[1].x)), st)
    ELSE IF f.t = "builtin_function_or_method" /\ f.s = "object.__subclasses__"
    THEN IF vs = <<>> THEN Val(VList(ObjectSubclasses), st)
         ELSE Raise("TypeError", st)
    ELSE IF f.t = "builtin_function_or_method" /\ f.s = "generator.throw"
    THEN IF Len(vs) = 1 /\ vs[1].t = "BaseException"
         THEN Raise("BaseException", st) ELSE Raise("TypeError", st)
    ELSE IF f.t = "type" /\ f.s = "BaseException"
    THEN Val(VInstance("BaseException"), st)
    ELSE IF f.t = "type" /\ f.s = "tuple" /\ vs = <<>>
    THEN Val(VTuple(<<>>), st)
    ELSE Raise("TypeError", st)

\* l op r on floats
Arith(op, l, r, st) ==
    IF l.t # "float" \/ r.t # "float" THEN Raise("TypeError", st)
    ELSE IF op = "-" THEN Val(VNum(FSub(l.x, r.x)), st)
    ELSE IF op = "+" THEN Val(VNum(FAdd(l.x, r.x)), st)
    ELSE IF op = "*" THEN Val(VNum(FMul(l.x, r.x)), st)
    ELSE IF r.x = Zero THEN Raise("ZeroDivisionError", st)
    ELSE Val(VNum(FDiv(l.x, r.x)), st)

\* A name's lookup, line 42: the locals, then the globals, whose __builtins__
\* is empty.
Lookup(id, st) ==
    IF id \in DOMAIN st.env
    THEN Val(st.env[id], [st EXCEPT !.names = @ \cup {id}])
    ELSE Raise("NameError", st)

Bind(id, v, st) ==
    [st EXCEPT !.env = [x \in DOMAIN st.env \cup {id} |->
                          IF x = id THEN v ELSE st.env[x]],
               !.binds = @ \cup {id}]

(* eval(code, globals, locals), line 40.  st is [env, names, attrs, binds]: *)
(* the locals, and what the evaluation has used so far: the names it        *)
(* resolved, the attributes it fetched, the names it bound.                 *)
RECURSIVE Eval(_, _), EvalArgs(_, _, _, _)
Eval(e, st) ==
    CASE e.t = "Num" -> Val(VNum(e.n), st)
      [] e.t = "Name" -> Lookup(e.id, st)
      [] e.t = "Tuple" -> Val(VTuple(<<>>), st)
      [] e.t = "GeneratorExp" -> Val(VGenerator, st)
      [] e.t = "NamedExpr" ->
            LET r == Eval(e.a[1], st) IN
            IF r.k = "raise" THEN r ELSE Val(r.v, Bind(e.id, r.v, r.st))
      [] e.t = "BoolOp" ->
            LET l == Eval(e.a[1], st) IN
            IF l.k = "raise" THEN l
            ELSE IF (e.id = "and") = Truthy(l.v) THEN Eval(e.a[2], l.st)
            ELSE l
      [] e.t = "BinOp" ->
            LET l == Eval(e.a[1], st) IN
            IF l.k = "raise" THEN l
            ELSE LET r == Eval(e.a[2], l.st) IN
                 IF r.k = "raise" THEN r ELSE Arith(e.id, l.v, r.v, r.st)
      [] e.t = "Attribute" ->
            LET r == Eval(e.a[1], st) IN
            IF r.k = "raise" THEN r
            ELSE GetAttr(r.v, e.id, [r.st EXCEPT !.attrs = @ \cup {e.id}])
      [] e.t = "Subscript" ->
            LET v == Eval(e.a[1], st) IN
            IF v.k = "raise" THEN v
            ELSE LET i == Eval(e.a[2], v.st) IN
                 IF i.k = "raise" THEN i ELSE GetItem(v.v, i.v, i.st)
      [] e.t = "Call" ->
            LET f == Eval(e.a[1], st) IN
            IF f.k = "raise" THEN f
            ELSE LET r == EvalArgs(e.a, 2, <<>>, f.st) IN
                 IF r.k = "raise" THEN Raise(r.exc, r.st)
                 ELSE Apply(f.v, r.vs, r.st)
\* the arguments es[k..], left to right
EvalArgs(es, k, vs, st) ==
    IF k > Len(es) THEN [k |-> "val", vs |-> vs, exc |-> None, st |-> st]
    ELSE LET r == Eval(es[k], st) IN
         IF r.k = "raise" THEN [k |-> "raise", vs |-> vs, exc |-> r.exc, st |-> r.st]
         ELSE EvalArgs(es, k + 1, Append(vs, r.v), r.st)

\* Lines 43-50: the locals the expression is evaluated in.
Locals(path) ==
    [x \in {"path", "S", "math", "max", "min", "abs"} |->
        CASE x = "path" -> VList([k \in DOMAIN path |-> VNum(path[k])])
          [] x = "S" -> VNum(path[Len(path)])
          [] x = "math" -> VModule("math")
          [] OTHER -> VBuiltin(x)]

\* Lines 38-52, payoff(path) for the compiled expression e: [k, x, exc, used],
\* the float returned or the exception raised, and what the evaluation used.
Payoff(e, path) ==
    LET st0 == [env |-> Locals(path), names |-> {}, attrs |-> {}, binds |-> {}]
        r == Eval(e, st0)
        used == [names |-> r.st.names, attrs |-> r.st.attrs, binds |-> r.st.binds]
    IN IF r.k = "raise" THEN [k |-> "raise", x |-> Unset, exc |-> r.exc, used |-> used]
       \* float(...) of something that is no number
       ELSE IF r.v.t # "float"
       THEN [k |-> "raise", x |-> Unset, exc |-> "TypeError", used |-> used]
       ELSE [k |-> "val", x |-> r.v.x, exc |-> None, used |-> used]

(* The expressions the callers below supply.                               *)
\* max(S - 1, 0)
ExCall == Call(Name("max"), <<BinOp(Name("S"), "-", Num(1)), Num(0)>>)
\* max(path) - path[0]
ExLookback == BinOp(Call(Name("max"), <<Name("path")>>), "-",
                    Subscript(Name("path"), Num(0)))
\* foo
ExUndefined == Name("foo")
\* 0 and foo
ExUnreached == BoolOp(Num(0), "and", Name("foo"))
\* S / 0
ExDivZero == BinOp(Name("S"), "/", Num(0))
\* math.exp(0)
ExMath == Call(Attribute(Name("math"), "exp"), <<Num(0)>>)
\* (x := 1)
ExWalrus == NamedExpr("x", Num(1))
\* ().__class__
ExClass == Attribute(EmptyTuple, "__class__")
\* (x for x in ()).throw(().__class__.__base__.__subclasses__()[1]())
ExThrow ==
    Call(Attribute(EmptyGenerator, "throw"),
         <<Call(Subscript(Call(Attribute(Attribute(Attribute(EmptyTuple,
                 "__class__"), "__base__"), "__subclasses__"), <<>>), Num(1)),
                <<>>)>>)
\* x = 1
ExAssign == Assign("x", Num(1))
\* import os
ExImport == Import("os")

(******************************* the random source *************************)
(* The module-level generator of Python's random, shared by every caller   *)
(* in the process: [s, gauss_next].  s stands for the Mersenne Twister     *)
(* state, stepped by one per uniform draw; gauss_next is the second        *)
(* variate random.gauss() keeps from each pair it computes.  Variates are  *)
(* -1, 0 or 1.                                                             *)

RngStates == 4

Threads == {1, 2}

\* A faulty seed that keeps the cached variate of the last pair.
SeedKeepsCache(a) == [s |-> a % RngStates, gauss_next |-> rng.gauss_next]

\* random.seed(a): the state is a function of a, and gauss_next is dropped.
Seed(a) == [s |-> a % RngStates, gauss_next |-> Unset]

\* random.random(): [u, s], the uniform drawn and the state after it.
Random(s) == [u |-> s, s |-> (s + 1) % RngStates]

\* random.gauss(0, 1) on generator g: [z, g], the variate and the generator
\* after the call.  A cached variate is handed out first; otherwise two
\* uniforms make a pair, one returned and one cached.
Gauss(g) ==
    IF g.gauss_next # Unset
    THEN [z |-> g.gauss_next, g |-> [g EXCEPT !.gauss_next = Unset]]
    ELSE LET r1 == Random(g.s)
             r2 == Random(r1.s)
         IN [z |-> F(((r1.u + 2 * r2.u) % 3) - 1),
             g |-> [s |-> r2.s, gauss_next |-> F(((2 * r1.u + r2.u) % 3) - 1)]]

(********************* monte_carlo_option.monte_carlo_price ****************)

NoFn == Node("None", "", Unset, <<>>)

NoMcArgs ==
    [spot |-> Unset, rate |-> Unset, volatility |-> Unset, maturity |-> Unset,
     steps |-> 0, paths |-> 0, payoff |-> NoFn, seed |-> <<>>]

NoLoc ==
    [drift |-> Unset, diffusion |-> Unset, discount |-> Unset,
     payoff_sum |-> Unset, i |-> 0, j |-> 0, price |-> Unset, path |-> <<>>]

NoOut == [result |-> Unset, exc |-> None, msg |-> None]

NoUse == [names |-> {}, attrs |-> {}, binds |-> {}]

NoGh == [zs |-> <<>>, evals |-> 0, used |-> NoUse, cached |-> FALSE]

NoPage == [error |-> None, result |-> Unset]

PathsMsg == "paths must be a positive integer"

\* Faulty input checks that test paths before steps.
McCheckInputsPathsFirst(a) ==
    IF FLe(a.spot, Zero) THEN SpotMsg
    ELSE IF FLe(a.volatility, Zero) THEN VolMsg
    ELSE IF FLe(a.maturity, Zero) THEN MaturityMsg
    ELSE IF a.paths <= 0 THEN PathsMsg
    ELSE IF a.steps <= 0 THEN StepsMsg
    ELSE None

\* Lines 87-96: the input checks, in their order.
McCheckInputs(a) ==
    IF FLe(a.spot, Zero) THEN SpotMsg
    ELSE IF FLe(a.volatility, Zero) THEN VolMsg
    ELSE IF FLe(a.maturity, Zero) THEN MaturityMsg
    ELSE IF a.steps <= 0 THEN StepsMsg
    ELSE IF a.paths <= 0 THEN PathsMsg
    ELSE None

Half == Norm(1, 2)

\* Lines 101-103.
Dt(a) == FDiv(a.maturity, F(a.steps))
Drift(a) == FMul(FSub(a.rate, FMul(Half, FPow(a.volatility, 2))), Dt(a))
Diffusion(a) == FMul(a.volatility, Sqrt(Dt(a)))

\* The grid point is one the model's exp and sqrt are exact on.
McOnGrid(a) ==
    /\ HasSqrt(Dt(a))
    /\ IsInteger(Drift(a))
    /\ IsInteger(Diffusion(a))
    /\ IsInteger(FMul(a.rate, a.maturity))

\* Lines 98-99.
Reseed(a) == IF a.seed # <<>> THEN Seed(a.seed[1]) ELSE rng

\* Lines 87-106, the call up to its first loop: thread t calls
\* monte_carlo_price(a.spot, ..., a.payoff, a.seed).
Enter(t, a) ==
    /\ args' = [args EXCEPT ![t] = a]
    /\ gh' = [gh EXCEPT ![t] = [NoGh EXCEPT !.cached = rng.gauss_next # Unset]]
    /\ IF McCheckInputs(a) # None
       THEN /\ out' = [out EXCEPT ![t] =
                         [result |-> Unset, exc |-> "ValueError",
                          msg |-> McCheckInputs(a)]]
            /\ pc' = [pc EXCEPT ![t] = "raised"]
            /\ loc' = [loc EXCEPT ![t] = NoLoc]
            /\ rng' = rng
       ELSE /\ rng' = Reseed(a)
            /\ IF ExpOverflows(FNeg(FMul(a.rate, a.maturity)))
               THEN /\ out' = [out EXCEPT ![t] =
                                 [result |-> Unset, exc |-> "OverflowError",
                                  msg |-> "math range error"]]
                    /\ pc' = [pc EXCEPT ![t] = "raised"]
                    /\ loc' = [loc EXCEPT ![t] = NoLoc]
               ELSE /\ out' = [out EXCEPT ![t] = NoOut]
                    /\ pc' = [pc EXCEPT ![t] = "loop"]
                    /\ loc' = [loc EXCEPT ![t] =
                                 [NoLoc EXCEPT
                                    !.drift = Drift(a),
                                    !.diffusion = Diffusion(a),
                                    !.discount = Exp(FNeg(FMul(a.rate, a.maturity))),
                                    !.payoff_sum = Zero]]

\* A direct caller: monte_carlo_price(spot, rate, volatility, maturity, steps,
\* paths, fn, seed) with the payoff function it holds.
MCCall(t, spot, rate, volatility, maturity, steps, paths, seed) ==
    LET a == [spot |-> spot, rate |-> rate, volatility |-> volatility,
              maturity |-> maturity, steps |-> steps, paths |-> paths,
              payoff |-> fn[t], seed |-> seed]
    IN /\ pc[t] = "idle"
       /\ fn[t] # NoFn
       /\ McCheckInputs(a) = None => McOnGrid(a)
       /\ Enter(t, a)
       /\ UNCHANGED <<fn, page>>
       /\ UNCHANGED binVars

\* A faulty trial start that keeps the path of the trial before.
TrialPathKept(t) == [loc[t] EXCEPT !.price = args[t].spot, !.j = 0,
                                   !.path = Append(@, args[t].spot)]

\* Lines 107-109: the next trial starts a fresh path at spot.
TrialStart(t) == [loc[t] EXCEPT !.price = args[t].spot, !.j = 0,
                                !.path = <<args[t].spot>>]

MCTrial(t) ==
    /\ pc[t] = "loop"
    /\ loc[t].i < args[t].paths
    /\ loc' = [loc EXCEPT ![t] = TrialStart(t)]
    /\ pc' = [pc EXCEPT ![t] = "inner"]
    /\ UNCHANGED <<rng, fn, args, out, gh, page>>
    /\ UNCHANGED binVars

\* Lines 110-113: one step of the path.
MCDraw(t) ==
    /\ pc[t] = "inner"
    /\ loc[t].j < args[t].steps
    /\ LET g == Gauss(rng)
           x == FAdd(loc[t].drift, FMul(loc[t].diffusion, g.z))
       IN /\ rng' = g.g
          /\ gh' = [gh EXCEPT ![t].zs = Append(@, g.z)]
          /\ IF ExpOverflows(x)
             THEN /\ out' = [out EXCEPT ![t] =
                               [result |-> Unset, exc |-> "OverflowError",
                                msg |-> "math range error"]]
                  /\ pc' = [pc EXCEPT ![t] = "raised"]
                  /\ loc' = loc
             ELSE /\ loc' = [loc EXCEPT
                               ![t].price = FMul(@, Exp(x)),
                               ![t].path = Append(@, FMul(loc[t].price, Exp(x))),
                               ![t].j = @ + 1]
                  /\ UNCHANGED <<out, pc>>
    /\ UNCHANGED <<fn, args, page>>
    /\ UNCHANGED binVars

\* Line 114: payoff_sum += payoff(path).
MCPayoff(t) ==
    /\ pc[t] = "inner"
    /\ loc[t].j = args[t].steps
    /\ LET r == Payoff(args[t].payoff, loc[t].path) IN
       /\ gh' = [gh EXCEPT
                   ![t].evals = @ + 1,
                   ![t].used = [names |-> @.names \cup r.used.names,
                                attrs |-> @.attrs \cup r.used.attrs,
                                binds |-> @.binds \cup r.used.binds]]
       /\ IF r.k = "raise"
          THEN /\ out' = [out EXCEPT ![t] =
                            [result |-> Unset, exc |-> r.exc, msg |-> r.exc]]
               /\ pc' = [pc EXCEPT ![t] = "raised"]
               /\ loc' = loc
          ELSE /\ loc' = [loc EXCEPT ![t].payoff_sum = FAdd(@, r.x),
                                     ![t].i = @ + 1]
               /\ pc' = [pc EXCEPT ![t] = "loop"]
               /\ out' = out
    /\ UNCHANGED <<rng, fn, args, page>>
    /\ UNCHANGED binVars

\* Line 116: return discount * (payoff_sum / paths).
MCReturn(t) ==
    /\ pc[t] = "loop"
    /\ loc[t].i = args[t].paths
    /\ out' = [out EXCEPT ![t].result =
                 FMul(loc[t].discount, FDiv(loc[t].payoff_sum, F(args[t].paths)))]
    /\ pc' = [pc EXCEPT ![t] = "returned"]
    /\ UNCHANGED <<rng, fn, args, loc, gh, page>>
    /\ UNCHANGED binVars

\* The direct caller has the price or the error; the call's frame is gone.
MCLeave(t) ==
    /\ pc[t] \in {"returned", "raised"}
    /\ pc' = [pc EXCEPT ![t] = "idle"]
    /\ args' = [args EXCEPT ![t] = NoMcArgs]
    /\ loc' = [loc EXCEPT ![t] = NoLoc]
    /\ out' = [out EXCEPT ![t] = NoOut]
    /\ gh' = [gh EXCEPT ![t] = NoGh]
    /\ UNCHANGED <<rng, fn, page>>
    /\ UNCHANGED binVars

\* A direct caller: fn = parse_payoff_expression(e), lines 36-54.  A
\* SyntaxError leaves the caller without a function.
ParsePayoff(t, e) ==
    /\ pc[t] = "idle"
    /\ fn' = [fn EXCEPT ![t] = IF IsExpression(e) THEN e ELSE NoFn]
    /\ out' = [out EXCEPT ![t] =
                 IF IsExpression(e) THEN NoOut
                 ELSE [result |-> Unset, exc |-> "SyntaxError",
                       msg |-> "invalid syntax"]]
    /\ UNCHANGED <<rng, pc, args, loc, gh, page>>
    /\ UNCHANGED binVars

\* The generator is seeded from the operating system when random is imported.
McInit ==
    /\ rng \in {[s |-> s, gauss_next |-> Unset] : s \in 0..(RngStates - 1)}
    /\ fn = [t \in Threads |-> NoFn]
    /\ pc = [t \in Threads |-> "idle"]
    /\ args = [t \in Threads |-> NoMcArgs]
    /\ loc = [t \in Threads |-> NoLoc]
    /\ out = [t \in Threads |-> NoOut]
    /\ gh = [t \in Threads |-> NoGh]
    /\ page = [t \in Threads |-> NoPage]

McSpots == {F(0), F(2)}
McRates == {F(1)}
McVols == {F(0), F(2)}
McMaturities == {F(i) : i \in 0..MaxSteps}
McSteps == 0..MaxSteps
McPaths == 0..MaxPaths
Seeds == {<<>>, <<1>>, <<2>>}

McPayoffs == {ExCall, ExUndefined, ExUnreached}

McNext ==
    \/ \E e \in McPayoffs : ParsePayoff(1, e)
    \/ \E sp \in McSpots, r \in McRates, v \in McVols, m \in McMaturities,
          n \in McSteps, k \in McPaths, sd \in Seeds :
          MCCall(1, sp, r, v, m, n, k, sd)
    \/ MCTrial(1)
    \/ MCDraw(1)
    \/ MCPayoff(1)
    \/ MCReturn(1)
    \/ MCLeave(1)

(************************ web_option_server: POST /price ********************)

\* Form fields are texts: sequences of characters.
Digits == <<"0", "1", "2", "3", "4", "5", "6", "7", "8", "9">>

IsDigit(c) == \E k \in 1..10 : Digits[k] = c

DigitVal(c) == (CHOOSE k \in 1..10 : Digits[k] = c) - 1

AllDigits(text) == \A k \in 1..Len(text) : IsDigit(text[k])

RECURSIVE DigitsVal(_)
DigitsVal(text) ==
    IF text = <<>> THEN 0
    ELSE 10 * DigitsVal(SubSeq(text, 1, Len(text) - 1)) + DigitVal(text[Len(text)])

\* str.strip(); int() and float() also ignore surrounding blanks.
RECURSIVE LStrip(_)
LStrip(text) ==
    IF text # <<>> /\ Head(text) = " " THEN LStrip(Tail(text)) ELSE text

RECURSIVE RStrip(_)
RStrip(text) ==
    IF text # <<>> /\ text[Len(text)] = " "
    THEN RStrip(SubSeq(text, 1, Len(text) - 1)) ELSE text

Strip(text) == RStrip(LStrip(text))

Signed(text) == text # <<>> /\ Head(text) \in {"+", "-"}

Unsigned(text) == IF Signed(text) THEN Tail(text) ELSE text

SignOf(text) == IF text # <<>> /\ Head(text) = "-" THEN -1 ELSE 1

\* Line 78, int(value): [ok, v]; not ok is a ValueError.
ParseInt(text) ==
    LET u == Unsigned(Strip(text)) IN
    IF u # <<>> /\ AllDigits(u)
    THEN [ok |-> TRUE, v |-> SignOf(Strip(text)) * DigitsVal(u)]
    ELSE [ok |-> FALSE, v |-> 0]

\* Line 80, float(value) on decimal texts: [ok, x]; not ok is a ValueError.
ParseFloat(text) ==
    LET u == Unsigned(Strip(text))
        dots == {k \in 1..Len(u) : u[k] = "."}
    IN IF dots = {}
       THEN (IF u # <<>> /\ AllDigits(u)
             THEN [ok |-> TRUE, x |-> Norm(SignOf(Strip(text)) * DigitsVal(u), 1)]
             ELSE [ok |-> FALSE, x |-> Unset])
       ELSE LET k == CHOOSE i \in dots : TRUE
                whole == SubSeq(u, 1, k - 1)
                frac == SubSeq(u, k + 1, Len(u))
            IN IF Cardinality(dots) = 1 /\ Len(u) > 1
                  /\ AllDigits(whole) /\ AllDigits(frac)
               THEN [ok |-> TRUE,
                     x |-> Norm(SignOf(Strip(text))
                                 * (DigitsVal(whole) * IntPow(10, Len(frac))
                                    + DigitsVal(frac)),
                                IntPow(10, Len(frac)))]
               ELSE [ok |-> FALSE, x |-> Unset]

FloatFields == {"spot", "rate", "volatility", "maturity"}
IntFields == {"steps", "paths"}
FieldOrder ==
    <<"spot", "rate", "volatility", "maturity", "steps", "paths", "payoff", "seed">>

KeyErrorMsg == "400 Bad Request: The browser (or proxy) sent a request that this server could not understand."
FloatMsg == "could not convert string to float"
IntMsg == "invalid literal for int() with base 10"

NoFailure == [exc |-> None, msg |-> None]

\* Lines 95-103: what reading field k of the form raises, if anything.
FieldFailure(form, k) ==
    IF k = "seed"
    THEN (IF k \in DOMAIN form /\ Strip(form[k]) # <<>> /\ ~ ParseInt(Strip(form[k])).ok
          THEN [exc |-> "ValueError", msg |-> IntMsg]
          ELSE NoFailure)
    ELSE IF k \notin DOMAIN form THEN [exc |-> "KeyError", msg |-> KeyErrorMsg]
    ELSE IF k \in FloatFields /\ ~ ParseFloat(form[k]).ok
         THEN [exc |-> "ValueError", msg |-> FloatMsg]
    ELSE IF k \in IntFields /\ ~ ParseInt(form[k]).ok
         THEN [exc |-> "ValueError", msg |-> IntMsg]
    ELSE IF k \in IntFields /\ PastMax(ParseInt(form[k]).v, 1)
         THEN [exc |-> "OverflowError", msg |-> "int too large to convert to float"]
    ELSE NoFailure

\* Lines 95-105: the first failure in the order the fields are read, then
\* the compilation of the payoff text.
FormFailure(form) ==
    LET bad == {k \in 1..Len(FieldOrder) : FieldFailure(form, FieldOrder[k]) # NoFailure}
    IN IF bad # {}
       THEN FieldFailure(form, FieldOrder[CHOOSE k \in bad : \A m \in bad : k <= m])
       ELSE IF ~ IsExpression(form["payoff"])
            THEN [exc |-> "SyntaxError", msg |-> "invalid syntax"]
       ELSE NoFailure

\* Lines 106-115: the arguments of the monte_carlo_price call.
FormArgs(form) ==
    [spot |-> ParseFloat(form["spot"]).x,
     rate |-> ParseFloat(form["rate"]).x,
     volatility |-> ParseFloat(form["volatility"]).x,
     maturity |-> ParseFloat(form["maturity"]).x,
     steps |-> ParseInt(form["steps"]).v,
     paths |-> ParseInt(form["paths"]).v,
     payoff |-> form["payoff"],
     seed |-> IF "seed" \in DOMAIN form /\ Strip(form["seed"]) # <<>>
              THEN <<ParseInt(Strip(form["seed"])).v>> ELSE <<>>]

\* Lines 116-119: the except clauses; an exception neither clause catches
\* leaves the handler.
Caught(exc) == exc \in {"ValueError", "KeyError"} \/ IsException(exc)

ErrorText(exc, msg) ==
    IF exc \in {"ValueError", "KeyError"} THEN msg
    ELSE "Failed to price option: " \o msg

\* Lines 65-70: the blocks the template shows.
Template(pg) ==
    {b \in {"error", "result"} :
        \/ b = "error" /\ pg.error # None /\ pg.error # ""
        \/ b = "result" /\ pg.result # Unset}

\* Lines 92-115, up to the first loop of monte_carlo_price.
WebPost(t, form) ==
    /\ pc[t] = "idle"
    /\ LET f == FormFailure(form) IN
       IF f # NoFailure
       THEN /\ page' = [page EXCEPT ![t] =
                          [error |-> ErrorText(f.exc, f.msg), result |-> Unset]]
            /\ pc' = [pc EXCEPT ![t] = "rendered"]
            /\ UNCHANGED <<rng, args, loc, out, gh>>
       ELSE /\ McCheckInputs(FormArgs(form)) = None => McOnGrid(FormArgs(form))
            /\ Enter(t, FormArgs(form))
            /\ page' = [page EXCEPT ![t] = NoPage]
    /\ fn' = fn
    /\ UNCHANGED binVars

\* Lines 116-126: the call returned or raised; the page is rendered unless
\* the exception leaves the handler.
WebRespond(t) ==
    /\ pc[t] \in {"returned", "raised"}
    /\ IF pc[t] = "returned"
       THEN /\ page' = [page EXCEPT ![t] =
                          [error |-> None, result |-> out[t].result]]
            /\ pc' = [pc EXCEPT ![t] = "rendered"]
       ELSE IF Caught(out[t].exc)
       THEN /\ page' = [page EXCEPT ![t] =
                          [error |-> ErrorText(out[t].exc, out[t].msg),
                           result |-> Unset]]
            /\ pc' = [pc EXCEPT ![t] = "rendered"]
       ELSE /\ page' = page
            /\ pc' = [pc EXCEPT ![t] = "crashed"]
    /\ args' = [args EXCEPT ![t] = NoMcArgs]
    /\ loc' = [loc EXCEPT ![t] = NoLoc]
    /\ gh' = [gh EXCEPT ![t] = NoGh]
    /\ UNCHANGED <<rng, fn, out>>
    /\ UNCHANGED binVars

\* The response, or the failure, has gone to the client.
WebDone(t) ==
    /\ pc[t] \in {"rendered", "crashed"}
    /\ pc' = [pc EXCEPT ![t] = "idle"]
    /\ page' = [page EXCEPT ![t] = NoPage]
    /\ out' = [out EXCEPT ![t] = NoOut]
    /\ UNCHANGED <<rng, fn, args, loc, gh>>
    /\ UNCHANGED binVars

SpotTexts == {<<"1", ".", "5">>, <<"0">>, <<"x">>}
RateTexts == {<<"1">>, <<>>}
VolTexts == {<<"2", ".", "0">>, <<"-", "2">>}
MaturityTexts == {<<" ", "1", " ">>}
StepsTexts == {<<"1">>, <<"1", ".", "5">>}
PathsTexts == {<<"+", "2">>, <<"0">>}
SeedTexts == {<<>>, <<"1">>, <<"x">>}
WebPayoffs == {ExCall, ExUndefined, ExDivZero, ExThrow, Unparsable}

\* The fields a client may leave out of the form.
Missing == {{}, {"spot"}, {"payoff"}, {"seed"}}

\* The form with the given fields, less the missing ones.
Form(spot, rate, volatility, maturity, steps, paths, payoff, seed, missing) ==
    LET all == [spot |-> spot, rate |-> rate, volatility |-> volatility,
                maturity |-> maturity, steps |-> steps, paths |-> paths,
                payoff |-> payoff, seed |-> seed]
    IN [k \in DOMAIN all \ missing |-> all[k]]

WebNext ==
    \/ \E sp \in SpotTexts, r \in RateTexts, v \in VolTexts, m \in MaturityTexts,
          n \in StepsTexts, p \in PathsTexts, e \in WebPayoffs, sd \in SeedTexts,
          missing \in Missing :
          WebPost(1, Form(sp, r, v, m, n, p, e, sd, missing))
    \/ MCTrial(1)
    \/ MCDraw(1)
    \/ MCPayoff(1)
    \/ WebRespond(1)
    \/ MCReturn(1)
    \/ WebDone(1)

\* Two threads of one process, each a direct caller with a call-option payoff.
ConcSeeds == {<<>>, <<1>>}

ConcNext ==
    \/ \E t \in Threads : ParsePayoff(t, ExCall)
    \/ \E t \in Threads, n \in 1..MaxSteps, sd \in ConcSeeds :
          MCCall(t, F(2), F(1), F(2), F(n), n, 1, sd)
    \/ \E t \in Threads : MCTrial(t)
    \/ \E t \in Threads : MCDraw(t)
    \/ \E t \in Threads : MCPayoff(t)
    \/ \E t \in Threads : MCReturn(t)
    \/ \E t \in Threads : MCLeave(t)

\* One direct caller trying every expression on one trial of one step.
AllPayoffs ==
    {ExCall, ExLookback, ExUndefined, ExUnreached, ExDivZero, ExMath, ExWalrus,
     ExClass, ExThrow, ExAssign, ExImport, Unparsable}

PayoffNext ==
    \/ \E e \in AllPayoffs : ParsePayoff(1, e)
    \/ \E sp \in {F(1), F(2)}, sd \in Seeds :
          MCCall(1, sp, F(1), F(2), F(1), 1, 1, sd)
    \/ MCTrial(1)
    \/ MCDraw(1)
    \/ MCPayoff(1)
    \/ MCReturn(1)
    \/ MCLeave(1)

(****************************** specifications ****************************)

\* The lattice pricer and OptionSpec, with the Monte Carlo side at rest.
InitBin == BinInit /\ McInit /\ rng.s = 0

SpecBin == InitBin /\ [][BinNext]_vars

\* One direct caller of parse_payoff_expression and monte_carlo_price.
InitMC == McInit /\ BinInit

SpecMC == InitMC /\ [][McNext]_vars

\* Two concurrent direct callers.
InitConc == McInit /\ BinInit

SpecConc == InitConc /\ [][ConcNext]_vars

\* The web server handling one request at a time.
InitWeb == McInit /\ BinInit

SpecWeb == InitWeb /\ [][WebNext]_vars

\* One direct caller, every payoff expression.
InitPayoff == McInit /\ BinInit

SpecPayoff == InitPayoff /\ [][PayoffNext]_vars

(****************************** claims: binomial ***************************)

\* C3: for valid inputs price_option returns a value >= 0 for calls and puts:
\* every terminal payoff and every node value of the backward induction is
\* >= 0, and so is the value returned.
C3_PriceNonNegative ==
    /\ \A k \in DOMAIN payoffs : FLe(Zero, payoffs[k])
    /\ bpc = "returned" => FLe(Zero, bresult)

\* C4: price_option raises the risk-neutral-probability error whenever the p
\* it computed is outside [0, 1], and an input error when spot <= 0,
\* volatility <= 0 or steps <= 0; in each case nothing of the lattice has been
\* built, no induction step has run and no price is returned.
C4_EagerFailure ==
    /\ (bpc # "idle" /\ blocal.p # Unset
          /\ (FLt(blocal.p, Zero) \/ FLt(One, blocal.p)))
       => (bpc = "raised" /\ berror = ProbMsg)
    /\ (bpc # "idle"
          /\ (FLe(bargs.spot, Zero) \/ FLe(bargs.volatility, Zero)
                \/ bargs.steps <= 0))
       => (bpc = "raised" /\ berror \in {SpotMsg, VolMsg, StepsMsg})
    /\ (bpc = "raised" /\ berror \in {SpotMsg, VolMsg, StepsMsg, ProbMsg})
       => (prices = <<>> /\ payoffs = <<>> /\ step = -1 /\ bresult = Unset)

\* C4's case: a negative probability was computed and the call failed on it.
C4_Witness ==
    bpc = "raised" /\ berror = ProbMsg /\ FLt(blocal.p, Zero)

FreshGenerator(seed) == [s |-> seed % RngStates, gauss_next |-> Unset]

\* the path of one trial from generator g: [path, g, zs]
RECURSIVE AloneWalk(_, _, _, _, _)
AloneWalk(a, g, path, zs, j) ==
    IF j = a.steps THEN [path |-> path, g |-> g, zs |-> zs]
    ELSE LET r == Gauss(g)
             x == FAdd(Drift(a), FMul(Diffusion(a), r.z))
         IN AloneWalk(a, r.g, Append(path, FMul(path[Len(path)], Exp(x))),
                      Append(zs, r.z), j + 1)

\* the trials i.. of the run: [sum, zs]
RECURSIVE AloneTrials(_, _, _, _, _)
AloneTrials(a, g, sum, zs, i) ==
    IF i = a.paths THEN [sum |-> sum, zs |-> zs]
    ELSE LET w == AloneWalk(a, g, <<a.spot>>, zs, 0)
             r == Payoff(a.payoff, w.path)
         IN AloneTrials(a, w.g, FAdd(sum, r.x), w.zs, i + 1)

AloneRun(a) == AloneTrials(a, FreshGenerator(a.seed[1]), Zero, <<>>, 0)

AlonePrice(a) ==
    FMul(Exp(FNeg(FMul(a.rate, a.maturity))), FDiv(AloneRun(a).sum, F(a.paths)))

\* C1: a seeded monte_carlo_price run returns the price, and draws the
\* variates, that its arguments and seed alone determine, whatever calls
\* (seeded, unseeded, failing, succeeding) the process made before it; so two
\* runs with identical arguments and the same seed return identical prices.
C1_SeededReproducible ==
    \A t \in Threads :
        (pc[t] = "returned" /\ args[t].seed # <<>>)
        => (out[t].result = AlonePrice(args[t])
              /\ gh[t].zs = AloneRun(args[t]).zs)

\* C1's case: a seeded run returned that began with a variate of an earlier
\* call still cached in the generator.
C1_Witness ==
    /\ pc[1] = "returned"
    /\ args[1].seed # <<>>
    /\ gh[1].cached
    /\ out[1].result # Zero

\* The first field, in the order spot, volatility, maturity, steps, paths,
\* that is not positive.
FirstOffending(a) ==
    IF ~ FLt(Zero, a.spot) THEN SpotMsg
    ELSE IF ~ FLt(Zero, a.volatility) THEN VolMsg
    ELSE IF ~ FLt(Zero, a.maturity) THEN MaturityMsg
    ELSE IF a.steps < 1 THEN StepsMsg
    ELSE IF a.paths < 1 THEN PathsMsg
    ELSE None

\* C2: a monte_carlo_price call with spot, volatility, maturity, steps or
\* paths <= 0 fails with the input error naming the first such field, and
\* does so before any simulation work: the random source is left as it was,
\* no variate is drawn, the payoff is not called and no price is returned.
C2_InvalidInputFailsFirst ==
    /\ [](\A t \in Threads :
            (pc[t] # "idle" /\ FirstOffending(args[t]) # None)
            => /\ pc[t] = "raised"
               /\ out[t] = [result |-> Unset, exc |-> "ValueError",
                            msg |-> FirstOffending(args[t])]
               /\ gh[t].zs = <<>>
               /\ gh[t].evals = 0)
    /\ [][\A t \in Threads :
            (pc[t] = "idle" /\ pc'[t] # "idle" /\ FirstOffending(args'[t]) # None)
            => rng' = rng]_vars

\* C2's case: a seeded call with steps and paths both 0 failed, on steps.
C2_Witness ==
    /\ pc[1] = "raised"
    /\ args[1].seed # <<>>
    /\ args[1].steps = 0
    /\ args[1].paths = 0
    /\ out[1].msg = StepsMsg

AllowedNames == {"path", "S", "math", "max", "min", "abs"}

\* the expression mentions a name the evaluation environment does not define
RECURSIVE MentionsUndefined(_)
MentionsUndefined(e) ==
    \/ e.t = "Name" /\ e.id \notin AllowedNames
    \/ \E k \in DOMAIN e.a : MentionsUndefined(e.a[k])

\* C6: a payoff expression that refers to an undefined name never yields a
\* value: in monte_carlo_price the first trial that evaluates it raises, no
\* price is returned and no further trial is simulated.
C6_UndefinedNameFails ==
    \A t \in Threads :
        (MentionsUndefined(args[t].payoff) /\ gh[t].evals >= 1)
        => (pc[t] = "raised" /\ out[t].exc = "NameError"
              /\ out[t].result = Unset /\ gh[t].evals = 1)

\* C9: trials run one after the other: each starts a fresh path at spot and
\* draws one variate per step, appended in order, so that the payoff gets a
\* path of length steps + 1 starting at spot; the payoff is called once per
\* trial, after the trial's last draw and before the next trial's first; a
\* run that returns has drawn steps * paths variates.
C9_TrialOrder ==
    /\ [](\A t \in Threads :
            /\ pc[t] = "loop"
               => /\ gh[t].evals = loc[t].i
                  /\ loc[t].i <= args[t].paths
                  /\ Len(gh[t].zs) = loc[t].i * args[t].steps
            /\ pc[t] = "inner"
               => /\ gh[t].evals = loc[t].i
                  /\ loc[t].i < args[t].paths
                  /\ loc[t].j <= args[t].steps
                  /\ Len(gh[t].zs) = loc[t].i * args[t].steps + loc[t].j
                  /\ Len(loc[t].path) = loc[t].j + 1
                  /\ loc[t].path[1] = args[t].spot
                  /\ \A k \in 1..loc[t].j :
                        loc[t].path[k + 1] =
                           FMul(loc[t].path[k],
                                Exp(FAdd(loc[t].drift,
                                         FMul(loc[t].diffusion,
                                              gh[t].zs[loc[t].i * args[t].steps + k]))))
            /\ pc[t] = "returned"
               => /\ gh[t].evals = args[t].paths
                  /\ Len(gh[t].zs) = args[t].steps * args[t].paths)
    /\ [][\A t \in Threads :
            /\ gh'[t].evals = gh[t].evals + 1
               => /\ Len(loc[t].path) = args[t].steps + 1
                  /\ loc[t].path[1] = args[t].spot
                  /\ Len(gh[t].zs) = (gh[t].evals + 1) * args[t].steps
            /\ (pc[t] # "idle" /\ Len(gh'[t].zs) = Len(gh[t].zs) + 1)
               => Len(gh[t].zs) < (gh[t].evals + 1) * args[t].steps]_vars

\* C9's case: a run of two trials of two steps returned.
C9_Witness ==
    /\ pc[1] = "returned"
    /\ args[1].steps >= 2
    /\ args[1].paths >= 2
    /\ gh[1].evals >= 2

\* C10: with two monte_carlo_price calls in flight at once, a seeded call
\* still draws the variates, and returns the price, it does alone.
C10_ConcurrentReproducible ==
    \A t \in Threads :
        (pc[t] = "returned" /\ args[t].seed # <<>>)
        => (out[t].result = AlonePrice(args[t])
              /\ gh[t].zs = AloneRun(args[t]).zs)

\* The names the specification lets an expression use.
SpecNames == {"path", "S", "max", "min", "abs", "exp", "sqrt", "log"}

\* C5: a payoff evaluation resolves no name beyond path, S, the elementary
\* math functions, max, min and abs, fetches no attribute and binds no name.
C5_ClosedEnvironment ==
    \A t \in Threads :
        /\ gh[t].used.names \subseteq SpecNames
        /\ gh[t].used.attrs = {}
        /\ gh[t].used.binds = {}


\* C8: every POST to /price ends with the page rendered, showing exactly one
\* of the error and the result; no submission leaves the handler otherwise.
C8_PostAlwaysRenders ==
    \A t \in Threads :
        pc[t] \in {"rendered", "crashed"}
        => (pc[t] = "rendered" /\ Cardinality(Template(page[t])) = 1)

====
